---- MODULE Spec2Model ----
(***************************************************************************)
(* Result cache of the budget tracker API (src/src/app/main.py): the       *)
(* file-per-key FileCache, the cached_result wrapper, the cache endpoints  *)
(* and the get_cache backend selector.                                     *)
(***************************************************************************)
EXTENDS Integers, Sequences, FiniteSets, TLC

VARIABLES
  files,          \* the cache directory: file name -> file content
  now,            \* datetime.now(), in seconds
  cache_backend,  \* Settings.cache_backend
  last,           \* what the operation that just returned was given and gave back
  written,        \* history: call -> the value the last completed set left stored
  keyed,          \* the pair of calls whose keys were derived last
  txn,            \* the request and response of the transaction endpoint that just returned
  race            \* two cache operations running concurrently, step by step

vars == <<files, now, cache_backend, last, written, keyed, txn, race>>

----------------------------------------------------------------------------
(* Bounds *)

MaxArgs == 1
MaxKwargs == 2
MaxTicks == 2
TickUnit == 150
WriteCalls == 2

(* Program constants *)

SetTtlSeconds == 300
cache_ttl_seconds == 300

Backends == {"file", "redis"}
TTLs == {150, 300}

None == "None"
Vals == {None, "yes", "no"}
HTTPException == "HTTPException"

Funcs == {"check_eligibility", "list_transactions"}
ArgVals == {1, 2}
KwNames == {"a", "b"}

----------------------------------------------------------------------------
(* Calls: an operation name, a tuple of positional arguments and a dict of *)
(* keyword arguments, kept as the sequence of its items in insertion order *)

SeqsUpTo(S, n) == UNION {[1..k -> S] : k \in 0..n}

KwDicts == {kw \in SeqsUpTo(KwNames \X ArgVals, MaxKwargs) :
              \A i, j \in 1..Len(kw) : i # j => kw[i][1] # kw[j][1]}

Calls == [func : Funcs, args : SeqsUpTo(ArgVals, MaxArgs), kwargs : KwDicts]

KwItems(kw) == {kw[i] : i \in 1..Len(kw)}

SameCall(c, d) ==
  /\ c.func = d.func
  /\ c.args = d.args
  /\ KwItems(c.kwargs) = KwItems(d.kwargs)

(* The calls the store is exercised with *)
StoreCalls == {c \in Calls : /\ c.func = "check_eligibility"
                             /\ Len(c.args) = 1
                             /\ c.kwargs = <<>>}

NoCall == [func |-> "", args |-> <<>>, kwargs |-> <<>>]

----------------------------------------------------------------------------
(* Key derivation *)

RECURSIVE ArgsStr(_)
ArgsStr(args) ==
  IF args = <<>> THEN ""
  ELSE ToString(Head(args)) \o "," \o ArgsStr(Tail(args))

RECURSIVE KwStr(_)
KwStr(kw) ==
  IF kw = <<>> THEN ""
  ELSE Head(kw)[1] \o ":" \o ToString(Head(kw)[2]) \o "," \o KwStr(Tail(kw))

(* A key serialisation that leaves the keyword arguments' values out *)
pickle_dumps_names_only(data) ==
  "{func:" \o data.func \o ",args:(" \o ArgsStr(data.args)
     \o "),kwargs:{" \o ToString(Len(data.kwargs)) \o "}}"

(* pickle.dumps of {"func": .., "args": .., "kwargs": ..}: the items in    *)
(* order, the dict of keyword arguments in its insertion order             *)
pickle_dumps(data) ==
  "{func:" \o data.func \o ",args:(" \o ArgsStr(data.args)
     \o "),kwargs:{" \o KwStr(data.kwargs) \o "}}"

(* MD5 is taken to be collision-free on the bounded domain *)
md5_hexdigest(key_data) == "md5<" \o key_data \o ">"

(* Transactions: amounts are in hundredths, so 1 is Decimal("0.01") *)
Descriptions == {"", "Gift card"}
Amounts == {0 - 1000, 0, 1}
Categories == {"Quasi-cash", "Cash-in", "quasi-cash", "Cash-In", "Food"}
CheckCategories == {"Quasi-cash", "Food"}
Supplied == {"unset", "true", "false"}

(* The body of POST /transactions and the query of GET /eligibility/check *)
Bodies == [description : Descriptions, amount : Amounts, category : Categories,
           is_naffl_eligible : Supplied]
Queries == [description : Descriptions, amount : Amounts,
            category : CheckCategories, is_naffl_eligible : {"unset"}]

(* The keyword arguments FastAPI calls check_eligibility with *)
EndpointCall(q) ==
  [func |-> "check_eligibility", args |-> <<>>,
   kwargs |-> << <<"description", q.description>>, <<"amount", q.amount>>,
                 <<"category", q.category>>, <<"settings", "Settings">> >>]
EndpointCalls == {EndpointCall(q) : q \in Queries}

(* FileCache._generate_key of every call *)
KeyTable == [c \in Calls \cup EndpointCalls |-> md5_hexdigest(pickle_dumps(c))]

_generate_key(c) == KeyTable[c]

_get_cache_path(key) == "cache_" \o key \o ".pkl"

PathOf(c) == _get_cache_path(_generate_key(c))

startswith_cache(filename) ==
  Len(filename) >= 6 /\ SubSeq(filename, 1, 6) = "cache_"

----------------------------------------------------------------------------
(* The stored entry and its file *)

(* pickle.dump of {"value": .., "expires_at": ..} *)
pickle_dump(cached_data) ==
  <<"value", cached_data.value, "expires_at", cached_data.expires_at>>

(* pickle.load: the dict, or an exception on anything pickle.dump did not  *)
(* write in full                                                           *)
pickle_load(content) ==
  IF Len(content) = 4 /\ content[1] = "value" /\ content[3] = "expires_at"
  THEN [ok |-> TRUE, value |-> content[2], expires_at |-> content[4]]
  ELSE [ok |-> FALSE, value |-> None, expires_at |-> 0]

exists(fs, path) == path \in DOMAIN fs

remove(fs, path) == [p \in DOMAIN fs \ {path} |-> fs[p]]

write(fs, path, content) ==
  [p \in DOMAIN fs \cup {path} |-> IF p = path THEN content ELSE fs[p]]

listdir(fs) == DOMAIN fs

(* What the storage does to one read and to one write *)
ReadOk == "ok"
ReadFaults == {"EACCES"}
WriteOk == [err |-> "none", n |-> 4]
WriteFaults == {[err |-> "EACCES", n |-> 0]} \cup
               {[err |-> "ENOSPC", n |-> k] : k \in {0, 1}}

----------------------------------------------------------------------------
(* FileCache *)

(* A try block that serves an entry up to and including its expires_at *)
get_try_inclusive(fs, t, cache_path, rio) ==
  IF rio # ReadOk
  THEN [value |-> None, files |-> fs, exc |-> "OSError"]
  ELSE LET cached_data == pickle_load(fs[cache_path]) IN
       IF ~cached_data.ok
       THEN [value |-> None, files |-> fs, exc |-> "UnpicklingError"]
       ELSE IF t <= cached_data.expires_at
            THEN [value |-> cached_data.value, files |-> fs, exc |-> "none"]
            ELSE [value |-> None, files |-> remove(fs, cache_path), exc |-> "none"]

(* A try block whose delete sweeps every expired entry out of the          *)
(* directory, not only the one it read                                     *)
get_try_sweep(fs, t, cache_path, rio) ==
  IF rio # ReadOk
  THEN [value |-> None, files |-> fs, exc |-> "OSError"]
  ELSE LET cached_data == pickle_load(fs[cache_path]) IN
       IF ~cached_data.ok
       THEN [value |-> None, files |-> fs, exc |-> "UnpicklingError"]
       ELSE IF t < cached_data.expires_at
            THEN [value |-> cached_data.value, files |-> fs, exc |-> "none"]
            ELSE [value |-> None,
                  files |-> [p \in {f \in DOMAIN fs :
                                     ~(/\ pickle_load(fs[f]).ok
                                       /\ pickle_load(fs[f]).expires_at <= t)}
                               |-> fs[p]],
                  exc |-> "none"]

(* The try block of FileCache.get: the value it returns, the directory it *)
(* leaves and the exception that leaves it                                 *)
get_try(fs, t, cache_path, rio) ==
  IF rio # ReadOk
  THEN [value |-> None, files |-> fs, exc |-> "OSError"]
  ELSE LET cached_data == pickle_load(fs[cache_path]) IN
       IF ~cached_data.ok
       THEN [value |-> None, files |-> fs, exc |-> "UnpicklingError"]
       ELSE IF t < cached_data.expires_at
            THEN [value |-> cached_data.value, files |-> fs, exc |-> "none"]
            ELSE [value |-> None, files |-> remove(fs, cache_path), exc |-> "none"]

(* A get without its except clause *)
FileCache_get_no_except(fs, t, c, rio) ==
  LET cache_path == _get_cache_path(_generate_key(c)) IN
  IF ~exists(fs, cache_path)
  THEN [value |-> None, files |-> fs, raised |-> "none"]
  ELSE LET r == get_try(fs, t, cache_path, rio) IN
       [value |-> r.value, files |-> r.files, raised |-> r.exc]

(* FileCache.get: the value returned, the directory it leaves and the      *)
(* exception it raises                                                     *)
FileCache_get(fs, t, c, rio) ==
  LET cache_path == _get_cache_path(_generate_key(c)) IN
  IF ~exists(fs, cache_path)
  THEN [value |-> None, files |-> fs, raised |-> "none"]
  ELSE LET r == get_try(fs, t, cache_path, rio) IN
       IF r.exc # "none"
       THEN [value |-> None, files |-> r.files, raised |-> "none"]
       ELSE [value |-> r.value, files |-> r.files, raised |-> "none"]

(* A set that pickles the value alone, without its expiry *)
FileCache_set_value_only(fs, t, value, c, wio) ==
  LET cache_path == _get_cache_path(_generate_key(c))
  IN  IF wio.err = "none"
      THEN [files |-> write(fs, cache_path, <<"value", value>>), raised |-> "none"]
      ELSE IF wio.err = "EACCES"
      THEN [files |-> fs, raised |-> "OSError"]
      ELSE [files |-> write(fs, cache_path, SubSeq(<<"value", value>>, 1, wio.n)),
            raised |-> "OSError"]

(* FileCache.set with the file opened "ab": what is there stays, the new   *)
(* entry follows it                                                        *)
FileCache_set_append(fs, t, value, c, wio) ==
  LET cache_path == _get_cache_path(_generate_key(c))
      cached_data == [value |-> value, expires_at |-> t + SetTtlSeconds]
      before == IF exists(fs, cache_path) THEN fs[cache_path] ELSE <<>>
  IN  IF wio.err = "none"
      THEN [files |-> write(fs, cache_path, before \o pickle_dump(cached_data)),
            raised |-> "none"]
      ELSE [files |-> fs, raised |-> "OSError"]

(* FileCache.set: the directory it leaves and the exception it raises *)
FileCache_set(fs, t, value, c, wio) ==
  LET cache_path == _get_cache_path(_generate_key(c))
      cached_data == [value |-> value, expires_at |-> t + SetTtlSeconds]
  IN  IF wio.err = "none"
      THEN [files |-> write(fs, cache_path, pickle_dump(cached_data)),
            raised |-> "none"]
      ELSE IF wio.err = "EACCES"
      THEN [files |-> fs, raised |-> "OSError"]
      ELSE [files |-> write(fs, cache_path,
                            SubSeq(pickle_dump(cached_data), 1, wio.n)),
            raised |-> "OSError"]

(* A clear that removes only the entries it can unpickle *)
FileCache_clear_readable(fs) ==
  [p \in {f \in listdir(fs) : ~(startswith_cache(f) /\ pickle_load(fs[f]).ok)}
     |-> fs[p]]

(* FileCache.clear *)
FileCache_clear(fs) ==
  [p \in {f \in listdir(fs) : ~startswith_cache(f)} |-> fs[p]]

RECURSIVE SumSizes(_, _)
SumSizes(fs, names) ==
  IF names = {} THEN 0
  ELSE LET f == CHOOSE x \in names : TRUE
       IN  Len(fs[f]) + SumSizes(fs, names \ {f})

(* cache_stats that opens and unpickles every file it counts               *)
stats_loadable_only(fs) ==
  LET cache_files == {f \in listdir(fs) : startswith_cache(f) /\ pickle_load(fs[f]).ok}
  IN  [total_entries |-> Cardinality(cache_files),
       total_size_bytes |-> SumSizes(fs, cache_files)]

(* cache_stats *)
stats(fs) ==
  LET cache_files == {f \in listdir(fs) : startswith_cache(f)}
  IN  [total_entries |-> Cardinality(cache_files),
       total_size_bytes |-> SumSizes(fs, cache_files)]

(* get_cache: the exception it raises *)
get_cache_raises(backend) ==
  IF backend = "redis" THEN "NotImplementedError" ELSE "none"

(* cached_result's wrapper around a function that returns computed, or     *)
(* raises when computed is HTTPException; put is how its set ended         *)
wrapper(fs, t, ttl_seconds, c, computed, rio, wio) ==
  LET got == FileCache_get(fs, t, c, rio) IN
  IF got.raised # "none"
  THEN [result |-> None, raised |-> got.raised, calls |-> 0, put |-> "none",
        files |-> got.files]
  ELSE IF got.value # None
  THEN [result |-> got.value, raised |-> "none", calls |-> 0, put |-> "none",
        files |-> got.files]
  ELSE IF computed = HTTPException
  THEN [result |-> None, raised |-> HTTPException, calls |-> 1, put |-> "none",
        files |-> got.files]
  ELSE LET put == FileCache_set(got.files, t, computed, c, wio) IN
       IF put.raised # "none"
       THEN [result |-> None, raised |-> put.raised, calls |-> 1,
             put |-> put.raised, files |-> put.files]
       ELSE [result |-> computed, raised |-> "none", calls |-> 1,
             put |-> "ok", files |-> put.files]

----------------------------------------------------------------------------
(* State *)

Missing == <<"ENOENT">>

ContentAt(fs, c) == IF exists(fs, PathOf(c)) THEN fs[PathOf(c)] ELSE Missing

Idle == [op |-> "idle", call |-> NoCall, value |-> None, ttl |-> 0,
         pre |-> Missing, result |-> None, raised |-> "none", calls |-> 0,
         put |-> "none", rio |-> ReadOk, total_entries |-> 0,
         total_size_bytes |-> 0]

NoKeys == [a |-> NoCall, b |-> NoCall, ka |-> "", kb |-> "", pa |-> "", pb |-> "",
           got |-> None]

Unwritten == "unwritten"

NoRequest == [description |-> "", amount |-> 0, category |-> "",
              is_naffl_eligible |-> "unset"]

NoTransaction == [id |-> None, description |-> "", amount |-> 0, category |-> "",
                  date |-> 0, is_naffl_eligible |-> TRUE]

NoTxn == [op |-> "idle", request |-> NoRequest, status |-> 0,
          transaction |-> NoTransaction, is_eligible |-> TRUE, again |-> TRUE,
          classified |-> 0, cached |-> FALSE]

NoProc == [op |-> "none", call |-> NoCall, value |-> None, pc |-> "done",
           todo |-> {}, listed |-> {}, fd |-> "none", off |-> 0,
           chunk |-> 0, expires_at |-> 0, result |-> None, raised |-> "none",
           caught |-> "none"]

NoRace == [phase |-> "idle", start |-> <<>>, procs |-> <<NoProc, NoProc>>,
           order |-> <<>>]

Configured(backend) ==
  /\ files = <<>>
  /\ now = 0
  /\ cache_backend = backend
  /\ last = Idle
  /\ written = [c \in StoreCalls |-> Unwritten]
  /\ keyed = NoKeys
  /\ txn = NoTxn
  /\ race = NoRace

(* Settings as they default *)
Init == Configured("file")

(* Settings with CACHE_BACKEND=redis in the environment *)
InitRedis == Configured("redis")

(* The clock moves between operations *)
Tick ==
  /\ now + TickUnit <= MaxTicks * TickUnit
  /\ now' = now + TickUnit
  /\ last' = Idle
  /\ UNCHANGED <<files, cache_backend, written, keyed, txn, race>>

GetIO(c, rio) ==
  LET got == FileCache_get(files, now, c, rio) IN
  /\ files' = got.files
  /\ last' = [Idle EXCEPT !.op = "get", !.call = c, !.pre = ContentAt(files, c),
                          !.result = got.value, !.raised = got.raised,
                          !.rio = rio]
  /\ written' = [written EXCEPT ![c] = IF got.files # files THEN Unwritten ELSE @]
  /\ UNCHANGED <<now, cache_backend, keyed, txn, race>>

SetIO(v, c, wio) ==
  LET put == FileCache_set(files, now, v, c, wio) IN
  /\ files' = put.files
  /\ last' = [Idle EXCEPT !.op = "set", !.call = c, !.value = v,
                          !.raised = put.raised]
  /\ written' = [written EXCEPT ![c] = IF put.raised = "none" THEN v
                                       ELSE IF put.files # files THEN Unwritten
                                       ELSE @]
  /\ UNCHANGED <<now, cache_backend, keyed, txn, race>>

GetOrComputeIO(c, ttl, computed, rio, wio) ==
  LET r == wrapper(files, now, ttl, c, computed, rio, wio) IN
  /\ files' = r.files
  /\ last' = [Idle EXCEPT !.op = "getOrCompute", !.call = c, !.ttl = ttl,
                          !.value = IF r.calls = 0 THEN None ELSE computed,
                          !.pre = ContentAt(files, c),
                          !.result = r.result, !.raised = r.raised,
                          !.calls = r.calls, !.put = r.put, !.rio = rio]
  /\ written' = [written EXCEPT ![c] =
                   IF r.calls = 1 /\ computed # HTTPException /\ r.raised = "none"
                   THEN computed
                   ELSE IF r.files # files THEN Unwritten
                   ELSE @]
  /\ UNCHANGED <<now, cache_backend, keyed, txn, race>>

Get(c) == GetIO(c, ReadOk)

Set(v, c) == SetIO(v, c, WriteOk)

GetOrCompute(c, ttl, computed) == GetOrComputeIO(c, ttl, computed, ReadOk, WriteOk)

(* POST /cache/clear *)
clear_cache ==
  /\ files' = FileCache_clear(files)
  /\ last' = [Idle EXCEPT !.op = "clear",
                          !.total_entries = stats(files).total_entries,
                          !.total_size_bytes = stats(files).total_size_bytes]
  /\ written' = [c \in StoreCalls |-> Unwritten]
  /\ UNCHANGED <<now, cache_backend, keyed, txn, race>>

(* GET /cache/stats *)
cache_stats ==
  /\ last' = [Idle EXCEPT !.op = "stats",
                          !.total_entries = stats(files).total_entries,
                          !.total_size_bytes = stats(files).total_size_bytes]
  /\ UNCHANGED <<files, now, cache_backend, written, keyed, txn, race>>

(* The backend selector, called with the configured settings *)
get_cache ==
  /\ last' = [Idle EXCEPT !.op = "get_cache",
                          !.raised = get_cache_raises(cache_backend)]
  /\ UNCHANGED <<files, now, cache_backend, written, keyed, txn, race>>

GetFault(c) == \E rio \in ReadFaults : GetIO(c, rio)

SetFault(v, c) == \E wio \in WriteFaults : SetIO(v, c, wio)

(* The wrapper as check_eligibility is decorated, ttl_seconds=300 *)
GetOrComputeFault(c, computed) ==
  \E rio \in {ReadOk} \cup ReadFaults, wio \in {WriteOk} \cup WriteFaults :
     GetOrComputeIO(c, cache_ttl_seconds, computed, rio, wio)

Next ==
  \/ Tick
  \/ \E c \in StoreCalls : Get(c)
  \/ \E c \in StoreCalls, v \in Vals : Set(v, c)
  \/ \E c \in StoreCalls, ttl \in TTLs, v \in Vals \cup {HTTPException} :
        GetOrCompute(c, ttl, v)
  \/ clear_cache
  \/ cache_stats
  \/ get_cache

Spec == Init /\ [][Next]_vars

SpecRedis == InitRedis /\ [][Next]_vars

(* The same store on storage whose reads and writes can fail *)
NextFault ==
  \/ Tick
  \/ \E c \in StoreCalls : Get(c) \/ GetFault(c)
  \/ \E c \in StoreCalls, v \in Vals : Set(v, c) \/ SetFault(v, c)
  \/ \E c \in StoreCalls, v \in Vals \cup {HTTPException} :
        GetOrComputeFault(c, v)
  \/ clear_cache
  \/ cache_stats

SpecFault == Init /\ [][NextFault]_vars

(* Key derivation alone, over every pair of calls: the keys and paths of   *)
(* both, and what get(d) returns after set(ProbeValue, c) on an empty      *)
(* directory                                                               *)
ProbeValue == "yes"

DeriveKeys(c, d) ==
  /\ keyed = NoKeys
  /\ keyed' = [a |-> c, b |-> d,
               ka |-> _generate_key(c), kb |-> _generate_key(d),
               pa |-> _get_cache_path(_generate_key(c)),
               pb |-> _get_cache_path(_generate_key(d)),
               got |-> FileCache_get(
                         FileCache_set(<<>>, now, ProbeValue, c, WriteOk).files,
                         now, d, ReadOk).value]
  /\ UNCHANGED <<files, now, cache_backend, last, written, txn, race>>

NextKey == \E c, d \in Calls : DeriveKeys(c, d)

SpecKey == Init /\ [][NextKey]_vars

----------------------------------------------------------------------------
(* Transactions and their eligibility *)

Times == {k * TickUnit : k \in 0..MaxTicks}

(* EligibilityService.check_unionbank_naffl with the comparison folded to   *)
(* lower case, which the service does not do                               *)
lower(category) ==
  IF category \in {"Quasi-cash", "quasi-cash"} THEN "quasi-cash"
  ELSE IF category \in {"Cash-in", "Cash-In"} THEN "cash-in"
  ELSE category
check_unionbank_naffl_ignoring_case(transaction) ==
  lower(transaction.category) \notin {"quasi-cash", "cash-in"}

ineligible_categories == {"Quasi-cash", "Cash-in"}

check_unionbank_naffl(transaction) ==
  transaction.category \notin ineligible_categories

(* Transaction(...) with only the amount validated                          *)
Transaction_amount_only(fields, t) ==
  IF ~(fields.amount > 0)
  THEN [ok |-> FALSE, transaction |-> NoTransaction]
  ELSE [ok |-> TRUE,
        transaction |-> [id |-> None, description |-> fields.description,
                         amount |-> fields.amount, category |-> fields.category,
                         date |-> t,
                         is_naffl_eligible |-> fields.is_naffl_eligible # "false"]]

(* Transaction(...): the fields validated, the defaults filled in; not ok   *)
(* is pydantic's ValidationError, a ValueError                             *)
Transaction(fields, t) ==
  IF Len(fields.description) < 1 \/ ~(fields.amount > 0)
  THEN [ok |-> FALSE, transaction |-> NoTransaction]
  ELSE [ok |-> TRUE,
        transaction |-> [id |-> None, description |-> fields.description,
                         amount |-> fields.amount, category |-> fields.category,
                         date |-> t,
                         is_naffl_eligible |-> fields.is_naffl_eligible # "false"]]

(* What check_eligibility returns, as the cache pickles it *)
Responses == [transaction : [id : {None}, description : Descriptions,
                             amount : Amounts, category : CheckCategories,
                             date : Times, is_naffl_eligible : BOOLEAN],
              is_eligible : BOOLEAN]

ResponseRepr(r) ==
  "{transaction:{description:" \o r.transaction.description
    \o ",amount:" \o ToString(r.transaction.amount)
    \o ",category:" \o r.transaction.category
    \o ",date:" \o ToString(r.transaction.date)
    \o ",is_naffl_eligible:" \o ToString(r.transaction.is_naffl_eligible)
    \o "},is_eligible:" \o ToString(r.is_eligible) \o "}"

ResponseOf(repr) == CHOOSE r \in Responses : ResponseRepr(r) = repr

(* The body of check_eligibility: the response, or HTTPException for 400;  *)
(* classified counts the classifier's runs                                 *)
check_eligibility_body(q, t) ==
  LET made == Transaction(q, t) IN
  IF ~made.ok
  THEN [computed |-> HTTPException, classified |-> 0]
  ELSE [computed |-> ResponseRepr(
                       [transaction |-> made.transaction,
                        is_eligible |-> check_unionbank_naffl(made.transaction)]),
        classified |-> 1]

(* EligibilityService.check_unionbank_naffl called twice on one transaction *)
classify(body) ==
  LET transaction == Transaction(body, now).transaction IN
  /\ Transaction(body, now).ok
  /\ txn' = [NoTxn EXCEPT !.op = "classify", !.request = body, !.status = 200,
                          !.transaction = transaction,
                          !.is_eligible = check_unionbank_naffl(transaction),
                          !.again = check_unionbank_naffl(transaction),
                          !.classified = 2]
  /\ UNCHANGED <<files, now, cache_backend, last, written, keyed, race>>

(* POST /transactions: FastAPI answers 422 when the body does not validate *)
create_transaction(body) ==
  LET made == Transaction(body, now) IN
  /\ txn' = IF ~made.ok
            THEN [NoTxn EXCEPT !.op = "create_transaction", !.request = body,
                               !.status = 422]
            ELSE [NoTxn EXCEPT !.op = "create_transaction", !.request = body,
                               !.status = 200,
                               !.transaction =
                                 [made.transaction EXCEPT !.is_naffl_eligible =
                                    check_unionbank_naffl(made.transaction)],
                               !.is_eligible = check_unionbank_naffl(made.transaction),
                               !.again = check_unionbank_naffl(made.transaction),
                               !.classified = 1]
  /\ UNCHANGED <<files, now, cache_backend, last, written, keyed, race>>

(* GET /eligibility/check, behind cached_result(ttl_seconds=300) *)
check_eligibility(q) ==
  LET body == check_eligibility_body(q, now)
      r == wrapper(files, now, 300, EndpointCall(q), body.computed, ReadOk, WriteOk)
  IN
  /\ files' = r.files
  /\ txn' = IF r.raised # "none"
            THEN [NoTxn EXCEPT !.op = "check_eligibility", !.request = q,
                               !.status = 400, !.classified = body.classified]
            ELSE [NoTxn EXCEPT !.op = "check_eligibility", !.request = q,
                               !.status = 200,
                               !.transaction = ResponseOf(r.result).transaction,
                               !.is_eligible = ResponseOf(r.result).is_eligible,
                               !.again = ResponseOf(r.result).is_eligible,
                               !.classified = r.calls * body.classified,
                               !.cached = (r.calls = 0)]
  /\ UNCHANGED <<now, cache_backend, last, written, keyed, race>>

NextTxn ==
  \/ Tick
  \/ \E body \in Bodies : classify(body)
  \/ \E body \in Bodies : create_transaction(body)
  \/ \E q \in Queries : check_eligibility(q)

SpecTxn == Init /\ [][NextTxn]_vars

----------------------------------------------------------------------------
(* Two cache operations at once, from two worker processes that share the  *)
(* cache directory. Each operation is taken apart into its system calls;   *)
(* a file that is removed while a writer holds it open stays writable to   *)
(* that writer and is gone once the writer closes it.                      *)

Stored == "no"
RaceVals == {"yes", "no"}
Procs == {1, 2}

RaceOps ==
  {[op |-> "set", call |-> c, value |-> v] : c \in StoreCalls, v \in RaceVals}
    \cup {[op |-> "get", call |-> c, value |-> None] : c \in StoreCalls}
    \cup {[op |-> "clear", call |-> NoCall, value |-> None]}

FirstPc(op) == IF op = "set" THEN "open" ELSE IF op = "get" THEN "exists" ELSE "listdir"

Hole == "NUL"

(* write(2) of chunk at offset off of a file that holds content *)
pwrite(content, off, chunk) ==
  LET n == IF Len(content) > off + Len(chunk) THEN Len(content) ELSE off + Len(chunk)
  IN  [i \in 1..n |-> IF i > off /\ i <= off + Len(chunk) THEN chunk[i - off]
                      ELSE IF i <= Len(content) THEN content[i]
                      ELSE Hole]

(* The paths that some process holds open for writing *)
Opened == {PathOf(race.procs[q].call) : q \in {r \in Procs : race.procs[r].fd = "linked"}}

(* os.remove where a file that is open cannot be removed, as on Windows    *)
os_remove_busy(fs, path, opened) ==
  IF ~exists(fs, path) THEN [files |-> fs, exc |-> "FileNotFoundError"]
  ELSE IF path \in opened THEN [files |-> fs, exc |-> "PermissionError"]
  ELSE [files |-> remove(fs, path), exc |-> "none"]

(* os.remove: the directory it leaves and the exception it raises *)
os_remove(fs, path, opened) ==
  IF ~exists(fs, path) THEN [files |-> fs, exc |-> "FileNotFoundError"]
  ELSE [files |-> remove(fs, path), exc |-> "none"]

(* An except clause that lets the exception through *)
except_reraise(exc) == exc

(* except Exception: pass, in FileCache.get: the exception that leaves it  *)
except_Exception(exc) == "none"

(* The race after process p has become proc and the file at unlinked, if   *)
(* any, has left the directory                                             *)
RaceAfter(p, proc, unlinked) ==
  LET moved(q) == IF q = p THEN proc ELSE race.procs[q]
      held(q) == IF moved(q).fd = "linked" /\ PathOf(moved(q).call) = unlinked
                 THEN [moved(q) EXCEPT !.fd = "detached"]
                 ELSE moved(q)
      order == IF proc.pc = "done" THEN Append(race.order, p) ELSE race.order
  IN  [race EXCEPT !.procs = <<held(1), held(2)>>,
                   !.order = order,
                   !.phase = IF Len(order) = 2 THEN "done" ELSE "running"]

Running(p, op, pc) ==
  /\ race.phase = "running"
  /\ race.procs[p].op = op
  /\ race.procs[p].pc = pc

(* Before the race: the one worker stores entries, and time passes *)
Setup ==
  /\ race.phase = "idle"
  /\ \/ Tick
     \/ \E c \in StoreCalls : Set(Stored, c)

(* Two requests arrive together *)
Start(o1, o2) ==
  LET proc(o) == [NoProc EXCEPT !.op = o.op, !.call = o.call, !.value = o.value,
                                !.pc = FirstPc(o.op)]
  IN  /\ race.phase = "idle"
      /\ race' = [phase |-> "running", start |-> files,
                  procs |-> <<proc(o1), proc(o2)>>, order |-> <<>>]
      /\ last' = Idle
      /\ UNCHANGED <<files, now, cache_backend, written, keyed, txn>>

(* set: open(cache_path, "wb") creates the file or truncates it *)
SetOpen(p) ==
  LET me == race.procs[p] IN
  /\ Running(p, "set", "open")
  /\ files' = write(files, PathOf(me.call), <<>>)
  /\ race' = RaceAfter(p, [me EXCEPT !.pc = "write", !.fd = "linked", !.off = 0,
                                     !.expires_at = now + SetTtlSeconds], "")
  /\ UNCHANGED <<now, cache_backend, last, written, keyed, txn>>

(* set: pickle.dump reaches the file in one write when the entry fits the  *)
(* buffer and in up to WriteCalls writes of equal size when it does not;   *)
(* the file is closed after the last                                       *)
SetWrite(p) ==
  LET me == race.procs[p]
      data == pickle_dump([value |-> me.value, expires_at |-> me.expires_at])
      path == PathOf(me.call)
  IN  /\ Running(p, "set", "write")
      /\ \E n \in 1..WriteCalls :
           LET size == IF me.off = 0 THEN (Len(data) + n - 1) \div n ELSE me.chunk
               upto == IF me.off + size > Len(data) THEN Len(data) ELSE me.off + size
               chunk == SubSeq(data, me.off + 1, upto)
           IN  /\ me.off > 0 => n = 1
               /\ files' = IF me.fd = "linked"
                           THEN write(files, path, pwrite(files[path], me.off, chunk))
                           ELSE files
               /\ race' = RaceAfter(p,
                            [me EXCEPT !.off = upto, !.chunk = size,
                                       !.pc = IF upto = Len(data) THEN "done" ELSE "write",
                                       !.fd = IF upto = Len(data) THEN "none" ELSE @],
                            "")
      /\ UNCHANGED <<now, cache_backend, last, written, keyed, txn>>

(* get: os.path.exists(cache_path) *)
GetExists(p) ==
  LET me == race.procs[p] IN
  /\ Running(p, "get", "exists")
  /\ race' = RaceAfter(p, IF exists(files, PathOf(me.call))
                          THEN [me EXCEPT !.pc = "read"]
                          ELSE [me EXCEPT !.pc = "done", !.result = None], "")
  /\ UNCHANGED <<files, now, cache_backend, last, written, keyed, txn>>

(* get: open, pickle.load and the expiry test, inside the try *)
GetRead(p) ==
  LET me == race.procs[p]
      path == PathOf(me.call)
      exc == IF ~exists(files, path) THEN "FileNotFoundError"
             ELSE IF ~pickle_load(files[path]).ok THEN "UnpicklingError"
             ELSE "none"
  IN  /\ Running(p, "get", "read")
      /\ race' = RaceAfter(p,
                   IF exc # "none"
                   THEN [me EXCEPT !.pc = "done", !.result = None, !.caught = exc,
                                   !.raised = except_Exception(exc)]
                   ELSE IF now < pickle_load(files[path]).expires_at
                   THEN [me EXCEPT !.pc = "done",
                                   !.result = pickle_load(files[path]).value]
                   ELSE [me EXCEPT !.pc = "remove"], "")
      /\ UNCHANGED <<files, now, cache_backend, last, written, keyed, txn>>

(* get: os.remove(cache_path) of the expired entry, inside the try *)
GetRemove(p) ==
  LET me == race.procs[p]
      path == PathOf(me.call)
      rm == os_remove(files, path, Opened)
  IN  /\ Running(p, "get", "remove")
      /\ files' = rm.files
      /\ race' = RaceAfter(p,
                   [me EXCEPT !.pc = "done", !.result = None, !.caught = rm.exc,
                              !.raised = IF rm.exc = "none" THEN "none"
                                         ELSE except_Exception(rm.exc)],
                   IF rm.exc = "none" THEN path ELSE "")
      /\ UNCHANGED <<now, cache_backend, last, written, keyed, txn>>

(* clear: os.listdir(self.cache_dir) *)
ClearList(p) ==
  LET me == race.procs[p]
      todo == {f \in listdir(files) : startswith_cache(f)}
  IN  /\ Running(p, "clear", "listdir")
      /\ race' = RaceAfter(p, [me EXCEPT !.todo = todo, !.listed = todo,
                                         !.pc = IF todo = {} THEN "done" ELSE "remove"],
                           "")
      /\ UNCHANGED <<files, now, cache_backend, last, written, keyed, txn>>

(* clear: os.remove of the next file name listed, outside any try *)
ClearRemove(p) ==
  LET me == race.procs[p] IN
  /\ Running(p, "clear", "remove")
  /\ \E f \in me.todo :
       LET rm == os_remove(files, f, Opened) IN
       /\ files' = rm.files
       /\ race' = RaceAfter(p,
                    IF rm.exc # "none"
                    THEN [me EXCEPT !.pc = "done", !.raised = rm.exc]
                    ELSE [me EXCEPT !.todo = @ \ {f},
                                    !.pc = IF me.todo = {f} THEN "done" ELSE "remove"],
                    IF rm.exc = "none" THEN f ELSE "")
  /\ UNCHANGED <<now, cache_backend, last, written, keyed, txn>>

NextRace ==
  \/ Setup
  \/ \E o1, o2 \in RaceOps : Start(o1, o2)
  \/ \E p \in Procs : SetOpen(p)
  \/ \E p \in Procs : SetWrite(p)
  \/ \E p \in Procs : GetExists(p)
  \/ \E p \in Procs : GetRead(p)
  \/ \E p \in Procs : GetRemove(p)
  \/ \E p \in Procs : ClearList(p)
  \/ \E p \in Procs : ClearRemove(p)

SpecRace == Init /\ [][NextRace]_vars

----------------------------------------------------------------------------
(* Properties *)

Fresh(content, t) == pickle_load(content).ok /\ t < pickle_load(content).expires_at

Expired(content, t) == pickle_load(content).ok /\ pickle_load(content).expires_at <= t

Corrupt(content) == content # Missing /\ ~pickle_load(content).ok

StoreOps == {"get", "set", "getOrCompute", "clear", "stats"}

(* C1: a completed set(v, op, args, kwargs) leaves v stored for that call, *)
(* and a get for a call whose stored entry has not expired returns without *)
(* raising exactly the value the last completed set for that call wrote    *)
C1_RoundTrip ==
  /\ (last.op = "set" /\ last.raised = "none") =>
        /\ pickle_load(ContentAt(files, last.call)).ok
        /\ pickle_load(ContentAt(files, last.call)).value = last.value
        /\ written[last.call] = last.value
  /\ (last.op = "get" /\ Fresh(last.pre, now)) =>
        /\ last.raised = "none"
        /\ written[last.call] # Unwritten
        /\ last.result = written[last.call]

(* a get, one tick after the set at time 0, returns the "no" that was set *)
C1_Witness ==
  /\ last.op = "get"
  /\ Fresh(last.pre, now)
  /\ now > 0
  /\ pickle_load(last.pre).expires_at = SetTtlSeconds
  /\ last.result = "no"
  /\ written[last.call] = "no"

(* C2: the entry the wrapper stores expires ttl_seconds after it is stored *)
C2_TtlHonoured ==
  (last.op = "getOrCompute" /\ last.put = "ok") =>
     pickle_load(ContentAt(files, last.call)).expires_at = now + last.ttl

(* C3: a get that finds an entry whose expires_at is at or before the      *)
(* current time returns absent and deletes the entry, and stats then       *)
(* counts only the entries of the other calls                              *)
C3_Expiry ==
  (last.op = "get" /\ Expired(last.pre, now)) =>
     /\ last.result = None
     /\ ~exists(files, PathOf(last.call))
     /\ stats(files).total_entries =
          Cardinality({d \in StoreCalls \ {last.call} : exists(files, PathOf(d))})

(* a get at the very second a stored "yes" expires *)
C3_Witness ==
  /\ last.op = "get"
  /\ pickle_load(last.pre).ok
  /\ pickle_load(last.pre).value = "yes"
  /\ pickle_load(last.pre).expires_at <= now
  /\ last.result = None
  /\ ~exists(files, PathOf(last.call))

(* C4: right after clear every get returns absent, no call has an entry    *)
(* and stats reports 0 entries                                             *)
C4_ClearAll ==
  (last.op = "clear") =>
     /\ stats(files).total_entries = 0
     /\ \A c \in StoreCalls :
          /\ ContentAt(files, c) = Missing
          /\ FileCache_get(files, now, c, ReadOk).value = None

(* a clear of a directory that held one whole entry and one truncated one *)
C4_Witness ==
  /\ last.op = "clear"
  /\ last.total_entries = 2
  /\ last.total_size_bytes = 5
  /\ files = <<>>

(* C5: a get whose entry cannot be read or unpickled returns absent and    *)
(* raises nothing                                                          *)
C5_GetNeverRaises ==
  (last.op = "get" /\ last.pre # Missing
     /\ (last.rio # ReadOk \/ Corrupt(last.pre))) =>
     /\ last.result = None
     /\ last.raised = "none"

(* a get of a truncated entry *)
C5_Witness ==
  /\ last.op = "get"
  /\ last.rio = ReadOk
  /\ last.pre = <<"value">>
  /\ last.result = None
  /\ last.raised = "none"

(* C6: with cache_backend = "redis" every cache operation raises the       *)
(* unsupported-backend error                                               *)
C6_RedisFailsFast ==
  (cache_backend = "redis" /\ last.op \in StoreOps) =>
     last.raised = "NotImplementedError"

(* C7: two calls with the same name, the same positional arguments and the *)
(* same keyword name/value pairs in any order derive the same key, and a   *)
(* get for one hits the entry set for the other                            *)
C7_KwargOrderIndependent ==
  (keyed # NoKeys /\ SameCall(keyed.a, keyed.b)) =>
     /\ keyed.ka = keyed.kb
     /\ keyed.got = ProbeValue

(* C8: two calls that differ in name, in a positional argument or in a     *)
(* keyword argument derive different keys and paths, and a get for one     *)
(* does not return what was set for the other                              *)
C8_DistinctCallsDistinctKeys ==
  (keyed # NoKeys /\ ~SameCall(keyed.a, keyed.b)) =>
     /\ keyed.ka # keyed.kb
     /\ keyed.pa # keyed.pb
     /\ keyed.got = None

(* two calls that differ in the value of their one keyword argument *)
C8_Witness ==
  /\ keyed # NoKeys
  /\ keyed.a.func = keyed.b.func
  /\ keyed.a.args = keyed.b.args
  /\ Len(keyed.a.kwargs) = 1
  /\ Len(keyed.b.kwargs) = 1
  /\ keyed.a.kwargs[1][1] = keyed.b.kwargs[1][1]
  /\ keyed.a.kwargs[1][2] # keyed.b.kwargs[1][2]
  /\ keyed.ka # keyed.kb
  /\ keyed.got = None

(* C9: when the wrapper's set fails with a storage error the caller still  *)
(* gets the computed value, and no file is left for the key                *)
C9_SetFailureNotMasking ==
  (last.op = "getOrCompute" /\ last.put = "OSError") =>
     /\ last.raised = "none"
     /\ last.result = last.value
     /\ ~exists(files, PathOf(last.call))

(* C10: the wrapper returns an unexpired stored value without calling the  *)
(* function, and otherwise calls it once, stores its result and returns it *)
C10_GetOrCompute ==
  (last.op = "getOrCompute") =>
     IF Fresh(last.pre, now)
     THEN /\ last.calls = 0
          /\ last.result = pickle_load(last.pre).value
     ELSE /\ last.calls = 1
          /\ last.value # HTTPException =>
               /\ last.put = "ok"
               /\ last.result = last.value
               /\ pickle_load(ContentAt(files, last.call)).value = last.value

(* C11: classify returns false exactly for the categories "Quasi-cash" and *)
(* "Cash-in", compared as they are spelled, and true for every other; a    *)
(* second call on the same transaction gives the same result, and the      *)
(* transaction it was given is as it was constructed                       *)
C11_Classify ==
  txn.op = "classify" =>
    /\ txn.is_eligible = ~(\/ txn.transaction.category = "Quasi-cash"
                           \/ txn.transaction.category = "Cash-in")
    /\ txn.again = txn.is_eligible
    /\ txn.transaction = Transaction(txn.request, txn.transaction.date).transaction

C11_Witness ==
  /\ txn.op = "classify"
  /\ txn.transaction.category = "Cash-In"
  /\ txn.is_eligible

(* C13: the transaction returned by create-transaction and by the          *)
(* eligibility check carries is_naffl_eligible = classify(transaction)     *)
C13_NafflRecomputed ==
  (txn.op \in {"create_transaction", "check_eligibility"} /\ txn.status = 200) =>
    txn.transaction.is_naffl_eligible = check_unionbank_naffl(txn.transaction)

(* C14: a request whose amount is not positive or whose description is     *)
(* empty is answered with a 4xx error and no classification has run; every *)
(* other request is answered 200                                           *)
C14_Validation ==
  txn.op \in {"create_transaction", "check_eligibility"} =>
    IF txn.request.amount <= 0 \/ txn.request.description = ""
    THEN txn.status \in {400, 422} /\ txn.classified = 0
    ELSE txn.status = 200

C14_Witness ==
  /\ txn.op = "check_eligibility"
  /\ txn.request.amount > 0
  /\ txn.request.description = ""
  /\ txn.status = 400
  /\ txn.classified = 0

(* C12: a stats request reports how many entries are stored and the sum of *)
(* their sizes, and leaves every file as it was: an entry that has expired *)
(* is still stored, and counted, after it                                  *)
C12_StatsReadOnly ==
  [][last'.op = "stats" =>
       /\ files' = files
       /\ last'.total_entries =
            Cardinality({c \in StoreCalls : ContentAt(files, c) # Missing})
       /\ last'.total_size_bytes = SumSizes(files, DOMAIN files)
       /\ \A c \in StoreCalls :
            Expired(ContentAt(files, c), now) =>
              /\ ContentAt(files', c) = ContentAt(files, c)
              /\ last'.total_entries >= 1]_vars

(* stats of a directory that holds an expired entry and a truncated one    *)
C12_Witness ==
  /\ last.op = "stats"
  /\ last.total_entries = 2
  /\ \E c \in StoreCalls : Expired(ContentAt(files, c), now)
  /\ \E c \in StoreCalls : Corrupt(ContentAt(files, c))

(* C17: while the entry of a call is corrupt, a get for that call returns  *)
(* absent, raises nothing and leaves the entry as it is; a set(v) that     *)
(* completes, alone or inside the wrapper after its get came back absent,  *)
(* replaces the entry, and a get at any time before the new entry expires  *)
(* returns v                                                               *)
C17_CorruptionSelfHeals ==
  [][\A c \in StoreCalls :
       (Corrupt(ContentAt(files, c)) /\ last'.call = c) =>
         /\ last'.op = "get" =>
              /\ last'.result = None
              /\ last'.raised = "none"
              /\ ContentAt(files', c) = ContentAt(files, c)
         /\ last'.op = "getOrCompute" /\ last'.raised = "none" =>
              last'.calls = 1
         /\ (\/ last'.op = "set" /\ last'.raised = "none"
             \/ last'.op = "getOrCompute" /\ last'.put = "ok") =>
              /\ pickle_load(ContentAt(files', c)).ok
              /\ \A t \in Times :
                   (now' <= t /\ t < pickle_load(ContentAt(files', c)).expires_at) =>
                     FileCache_get(files', t, c, ReadOk).value = last'.value]_vars

(* the wrapper found a truncated entry, computed "yes" and stored it       *)
C17_Witness ==
  /\ last.op = "getOrCompute"
  /\ Corrupt(last.pre)
  /\ last.put = "ok"
  /\ last.value = "yes"
  /\ FileCache_get(files, now, last.call, ReadOk).value = "yes"

(* C20: every file in the directory is the entry of exactly one call, so   *)
(* there is at most one entry for a call; a set for a call writes that     *)
(* call's entry and leaves the entry of every other call as it was, value  *)
(* and expires_at; a get that deletes its call's expired entry, or serves  *)
(* it, leaves the entry of every other call as it was                      *)
C20_OneEntryPerKey ==
  [][/\ \A f \in DOMAIN files' :
          Cardinality({c \in StoreCalls : PathOf(c) = f}) = 1
     /\ Cardinality(DOMAIN files') <= Cardinality(StoreCalls)
     /\ last'.op = "set" =>
          /\ ContentAt(files', last'.call) =
               pickle_dump([value |-> last'.value,
                            expires_at |-> now + SetTtlSeconds])
          /\ \A d \in StoreCalls \ {last'.call} :
               ContentAt(files', d) = ContentAt(files, d)
     /\ last'.op = "get" =>
          /\ Expired(ContentAt(files, last'.call), now) =>
               ContentAt(files', last'.call) = Missing
          /\ \A d \in StoreCalls \ {last'.call} :
               ContentAt(files', d) = ContentAt(files, d)]_vars

(* a get has deleted the expired entry of its call while the expired entry *)
(* of another call is still stored                                         *)
C20_Witness ==
  /\ last.op = "get"
  /\ Expired(last.pre, now)
  /\ ContentAt(files, last.call) = Missing
  /\ \E d \in StoreCalls \ {last.call} : Expired(ContentAt(files, d), now)

(* The get that follows a finished race *)
GetAfter(c) == FileCache_get(files, now, c, ReadOk).value

Raced(op1, op2) ==
  /\ race.phase = "done"
  /\ \E p, q \in Procs :
       p # q /\ race.procs[p].op = op1 /\ race.procs[q].op = op2

(* C15: once two concurrent sets for the same call have both completed, a  *)
(* get for that call returns the value of the set that completed last      *)
C15_LastWriterWins ==
  (Raced("set", "set") /\ race.procs[1].call = race.procs[2].call) =>
    GetAfter(race.procs[1].call) = race.procs[race.order[2]].value

(* C16: after a clear and a set(v) for a call have run concurrently, both  *)
(* have completed without an exception, the call's file is absent or holds *)
(* exactly the entry of v, and a get for that call returns absent or v     *)
C16_ClearRacingSet ==
  Raced("clear", "set") =>
    \A p \in Procs :
      /\ race.procs[p].raised = "none"
      /\ race.procs[p].op = "set" =>
           /\ ContentAt(files, race.procs[p].call) \in
                {Missing, pickle_dump([value |-> race.procs[p].value,
                                       expires_at |-> now + SetTtlSeconds])}
           /\ GetAfter(race.procs[p].call) \in {None, race.procs[p].value}

(* the clear listed the old entry of the call and the set("yes") finished  *)
(* last, yet no entry is left                                              *)
C16_Witness ==
  /\ Raced("clear", "set")
  /\ \E p \in Procs :
       /\ race.procs[p].op = "set"
       /\ race.procs[p].value = "yes"
       /\ race.order[2] = p
       /\ ContentAt(race.start, race.procs[p].call) # Missing
       /\ ContentAt(files, race.procs[p].call) = Missing

(* C18: a clear that runs concurrently with another clear, or with a get   *)
(* that deletes an expired entry, completes without raising                *)
C18_ClearNeverFails ==
  (Raced("clear", "clear") \/ Raced("clear", "get")) =>
    \A p \in Procs : race.procs[p].op = "clear" => race.procs[p].raised = "none"

(* C19: a get that runs concurrently with a clear, or with another get for *)
(* the same call, completes without raising and returns absent or the      *)
(* unexpired value that was stored when it began                           *)
C19_GetNeverRaises ==
  (\/ Raced("get", "clear")
   \/ Raced("get", "get") /\ race.procs[1].call = race.procs[2].call) =>
    \A p \in Procs :
      race.procs[p].op = "get" =>
        /\ race.procs[p].raised = "none"
        /\ \/ race.procs[p].result = None
           \/ /\ Fresh(ContentAt(race.start, race.procs[p].call), now)
              /\ race.procs[p].result =
                   pickle_load(ContentAt(race.start, race.procs[p].call)).value

(* two gets of one expired entry: both passed the existence check and read *)
(* the entry, one removed it, the other found it gone at its os.remove     *)
C19_Witness ==
  /\ Raced("get", "get")
  /\ race.procs[1].call = race.procs[2].call
  /\ Expired(ContentAt(race.start, race.procs[1].call), now)
  /\ \E p \in Procs : race.procs[p].caught = "FileNotFoundError"
  /\ \A p \in Procs : race.procs[p].result = None /\ race.procs[p].raised = "none"

====
